---- MODULE Spec2Model ----
(***************************************************************************)
(* Model of the video-factory pipeline (scripts/generate_video.py and the  *)
(* four stage modules it drives).  One program run is one behaviour: Init  *)
(* picks the script that is run (entry) and its inputs, the actions are    *)
(* the steps of the stage functions, and the outcome of every external     *)
(* call (text model, image service, TTS subprocess, MoviePy) is chosen     *)
(* nondeterministically where the call is made.                            *)
(*                                                                         *)
(* Durations are floats in the source.  They are modelled as naturals: the *)
(* running sum of generate_timing_markers (0.0 + d0 + d1 ...) and sum() of *)
(* generate_voiceover (0 + d0 + d1 ...) fold in the same order, so they    *)
(* produce the same value in floating point as well.                       *)
(***************************************************************************)
EXTENDS Integers, Sequences, FiniteSets, TLC

\* ------------------------------------------------------------------ bounds
MaxScenes == 3
MaxDuration == 2
MaxCalls == 2

\* ------------------------------------------------------------ data domains
Ids == {"scene-001", "scene-002"}
Texts == {"", "hi"}
Durations == 1..MaxDuration

\* process_script.py: @dataclass Scene
Scene(id, text, duration) ==
    [id |-> id, text |-> text, visual_prompt |-> "p", duration |-> duration]

SeqsUpTo(S, n) == UNION {[1..k -> S] : k \in 0..n}

\* scene lists handed to generate_visuals: the ids decide what it does
VisualScenes == SeqsUpTo({Scene(id, "hi", 1) : id \in Ids}, MaxScenes)

\* scene lists handed to generate_voiceover: text and duration decide
VoiceScenes ==
    SeqsUpTo({Scene("scene-001", t, d) : t \in Texts, d \in Durations}, MaxScenes)

RECURSIVE SumDurations(_)
\* sum(scene.duration for scene in scenes)
SumDurations(s) ==
    IF s = <<>> THEN 0
    ELSE SumDurations(SubSeq(s, 1, Len(s) - 1)) + s[Len(s)].duration

\* ------------------------------------------------------------------- state
VARIABLES
    entry,          \* the script that was run: "main", "visuals", "voiceover", "assemble"
    pc,             \* position in the code
    scenes,         \* the scene list of the run
    api_key,        \* GOOGLE_GEMINI_API_KEY is set
    tts_script,     \* ~/clawd/scripts/gemini-tts.sh exists
    images,         \* ids whose {id}.png exists in the scenes directory
    script_json,    \* script.json: <<>> when absent, else <<list of scene dicts>>
    audio_file,     \* the voiceover audio file exists
    timing_json,    \* timing.json: [state, data]
    final_video,    \* the encoded video file exists
    i,              \* generate_visuals: loop index (1-based, as enumerate(scenes, 1))
    success_count,  \* generate_visuals: success_count
    log,            \* generate_visuals: what the current call did, in order
    calls,          \* number of generate_visuals calls started over the directory
    started,        \* stage functions called so far, in order
    visuals_ret,    \* value generate_visuals returned: "none", "True", "False"
    voiceover_ret,  \* value generate_voiceover returned: <<>> or <<dict>>
    assemble_ret,   \* value assemble_video returned: "none", "True", "False"
    exc,            \* exception that left the stage code ("none" when there is none)
    main_ret,       \* main()'s return value: -1 while running, else 0 or 1
    tts_runs,       \* number of times the TTS subprocess was run
    k,              \* create_video_from_scenes: loop index
    clips,          \* create_video_from_scenes: clips
    video,          \* assemble_video: <<>> (None) or <<[clips, audio, fps]>>
    tts_status,     \* exit status of the last TTS subprocess run, -1 before any
    failures,       \* the external calls and lookups that failed so far in the run
    prev,           \* generate_visuals: how the call before the current one ended
    opened,         \* assemble_video: media resources opened so far
    closed,         \* assemble_video: media resources closed so far
    loaded_scenes   \* load_scenes: <<>> or <<the list it returned>>

vars == <<entry, pc, scenes, api_key, tts_script, images, script_json, audio_file,
          timing_json, final_video, i, success_count, log, calls, started,
          visuals_ret, voiceover_ret, assemble_ret, exc, main_ret, tts_runs,
          k, clips, video, tts_status, failures, prev, opened, closed,
          loaded_scenes>>

env_vars == <<entry, api_key, tts_script>>
visuals_locals == <<i, success_count, log, calls>>
assemble_locals == <<k, clips, video>>
files_but_images == <<script_json, audio_file, timing_json, final_video>>
resources == <<opened, closed>>

\* ------------------------------------------------------- control transfer
\* mutant: the generic except clause reports success
main_except_bug(e) == IF e = "KeyboardInterrupt" THEN 1 ELSE 0

\* generate_video.py, main(): both except clauses return 1
main_except(e) == 1

\* an exception leaves the stage code: main() catches it, a direct caller gets it
Raise(e) ==
    /\ pc' = "done"
    /\ exc' = e
    /\ main_ret' = IF entry = "main" THEN main_except(e) ELSE main_ret

Goto(p) ==
    /\ pc' = p
    /\ UNCHANGED <<exc, main_ret>>

\* -------------------------------------------------------- process_script.py
\* the id process_script gives scene number n when the model sent none
SynthId(n) ==
    "scene-" \o (IF n < 10 THEN "00" ELSE IF n < 100 THEN "0" ELSE "") \o ToString(n)

\* process_script, the conversion of the parsed reply into Scene objects
process_script(data) ==
    [n \in 1..Len(data) |->
        [id |-> IF "id" \in DOMAIN data[n] THEN data[n].id ELSE SynthId(n),
         text |-> data[n].text,
         visual_prompt |-> data[n].visual_prompt,
         duration |-> data[n].duration]]

\* ---- the JSON text of script.json.  Python strings are TLA+ strings, read
\* ---- one character at a time; the file is the sequence of its objects' texts
\* ---- (the enclosing array and its commas are left to the json library).
SceneFields == <<"id", "text", "visual_prompt", "duration">>

\* the character of s at position p, "" past the end
Ch(s, p) == IF p >= 1 /\ p <= Len(s) THEN SubSeq(s, p, p) ELSE ""

\* mutant: the backslash is written as it is
json_escape_bug(c) ==
    IF c = "\"" THEN "\\\""
    ELSE IF c = "\n" THEN "\\n"
    ELSE c

\* json.dump(ensure_ascii=False): how one character of a string is written
json_escape(c) ==
    IF c = "\"" THEN "\\\""
    ELSE IF c = "\\" THEN "\\\\"
    ELSE IF c = "\n" THEN "\\n"
    ELSE c

RECURSIVE json_chars(_)
json_chars(str) ==
    IF str = "" THEN "" ELSE json_escape(Ch(str, 1)) \o json_chars(Tail(str))

\* json.dump of a str
json_string(str) == "\"" \o json_chars(str) \o "\""

\* json.dump of a float: its repr (durations are whole numbers of seconds here)
json_number(d) == ToString(d) \o ".0"

\* dataclasses.asdict(scene)
asdict(scene) ==
    [id |-> scene.id, text |-> scene.text, visual_prompt |-> scene.visual_prompt,
     duration |-> scene.duration]

\* json.dump(indent=2) of one scene dict inside the array
json_object(d) ==
    "{\n    \"id\": " \o json_string(d.id)
    \o ",\n    \"text\": " \o json_string(d.text)
    \o ",\n    \"visual_prompt\": " \o json_string(d.visual_prompt)
    \o ",\n    \"duration\": " \o json_number(d.duration)
    \o "\n  }"

\* save_scenes: asdict() of every scene, written with json.dump
save_scenes(s) == [n \in 1..Len(s) |-> json_object(asdict(s[n]))]

JsonError == [ok |-> FALSE]

\* json.load: the character after a backslash inside a string
json_unescape(c) == IF c = "n" THEN "\n" ELSE c

RECURSIVE scan_string(_, _, _)
\* json.load: a string, from the position after its opening quote
scan_string(s, p, acc) ==
    LET c == Ch(s, p) IN
    IF c = "" THEN JsonError
    ELSE IF c = "\"" THEN [ok |-> TRUE, val |-> acc, next |-> p + 1]
    ELSE IF c = "\\" THEN
        IF Ch(s, p + 1) = "" THEN JsonError
        ELSE scan_string(s, p + 2, acc \o json_unescape(Ch(s, p + 1)))
    ELSE scan_string(s, p + 1, acc \o c)

Digits == "0123456789"
IsDigit(c) == \E n \in 1..10 : Ch(Digits, n) = c
DigitValue(c) == (CHOOSE n \in 1..10 : Ch(Digits, n) = c) - 1

RECURSIVE scan_zeros(_, _)
\* json.load: the fraction of a whole-valued float
scan_zeros(s, p) == IF Ch(s, p) = "0" THEN scan_zeros(s, p + 1) ELSE p

RECURSIVE scan_number(_, _, _, _)
\* json.load: a number; any is TRUE once a digit was read
scan_number(s, p, acc, any) ==
    LET c == Ch(s, p) IN
    IF IsDigit(c) THEN scan_number(s, p + 1, acc * 10 + DigitValue(c), TRUE)
    ELSE IF ~any THEN JsonError
    ELSE IF c = "." THEN
        LET q == scan_zeros(s, p + 1) IN
        IF q = p + 1 \/ IsDigit(Ch(s, q)) THEN JsonError
        ELSE [ok |-> TRUE, val |-> acc, next |-> q]
    ELSE [ok |-> TRUE, val |-> acc, next |-> p]

RECURSIVE skip_ws(_, _)
\* json.load: whitespace between tokens
skip_ws(s, p) == IF Ch(s, p) \in {" ", "\n"} THEN skip_ws(s, p + 1) ELSE p

RECURSIVE scan_members(_, _, _)
\* json.load: the members of an object, from the opening quote of a key
scan_members(s, p, dict) ==
    IF Ch(s, p) # "\"" THEN JsonError
    ELSE LET key == scan_string(s, p + 1, "") IN
    IF ~key.ok THEN JsonError
    ELSE LET colon == skip_ws(s, key.next) IN
    IF Ch(s, colon) # ":" THEN JsonError
    ELSE LET at == skip_ws(s, colon + 1)
             value == IF Ch(s, at) = "\"" THEN scan_string(s, at + 1, "")
                      ELSE scan_number(s, at, 0, FALSE)
         IN
    IF ~value.ok THEN JsonError
    ELSE LET after == skip_ws(s, value.next)
             members == (key.val :> value.val) @@ dict
         IN
    IF Ch(s, after) = "," THEN scan_members(s, skip_ws(s, after + 1), members)
    ELSE IF Ch(s, after) = "}" /\ skip_ws(s, after + 1) = Len(s) + 1
         THEN [ok |-> TRUE, val |-> members]
    ELSE JsonError

\* json.load of one object of the array
json_load_object(s) ==
    LET p == skip_ws(s, 1) IN
    IF Ch(s, p) # "{" THEN JsonError
    ELSE scan_members(s, skip_ws(s, p + 1), <<>>)

\* load_scenes: json.load, then Scene(**scene_dict) for every object
load_scenes(file) ==
    LET dicts == [n \in 1..Len(file) |-> json_load_object(file[n])] IN
    IF \E n \in 1..Len(file) : ~dicts[n].ok
    THEN [ok |-> FALSE, error |-> "JSONDecodeError"]
    ELSE IF \E n \in 1..Len(file) :
               DOMAIN dicts[n].val # {SceneFields[f] : f \in 1..Len(SceneFields)}
    THEN [ok |-> FALSE, error |-> "TypeError"]
    ELSE [ok |-> TRUE,
          val |-> [n \in 1..Len(file) |->
                     [id |-> dicts[n].val["id"],
                      text |-> dicts[n].val["text"],
                      visual_prompt |-> dicts[n].val["visual_prompt"],
                      duration |-> dicts[n].val["duration"]]]]

\* the scene dicts a reply of the text model can hold: with an "id" of the
\* model's choosing or without one, the shortest and the longest duration
SceneDicts ==
    [id : {"scene-001"}, text : {"hi"}, visual_prompt : {"p"},
     duration : {1, MaxDuration}]
    \cup [text : {"hi"}, visual_prompt : {"p"}, duration : {1, MaxDuration}]

\* replies of the text model: the call fails, the text is no JSON, or a JSON array
Replies ==
    [state : {"error", "unparseable"}, data : {<<>>}]
    \cup [state : {"ok"}, data : SeqsUpTo(SceneDicts, MaxScenes)]

\* main(), step 1: process_script and save_scenes
main_process_script ==
    /\ pc = "process_script"
    /\ started' = Append(started, "process_script")
    /\ \E reply \in Replies :
        /\ failures' = IF api_key /\ reply.state = "ok" /\ Len(reply.data) >= 1
                       THEN failures ELSE failures \cup {"process_script"}
        /\ IF ~api_key THEN
              /\ Raise("ValueError")
              /\ UNCHANGED <<scenes, script_json>>
           ELSE IF reply.state = "error" THEN
              /\ Raise("APIError")
              /\ UNCHANGED <<scenes, script_json>>
           ELSE IF reply.state = "unparseable" THEN
              /\ Raise("JSONDecodeError")
              /\ UNCHANGED <<scenes, script_json>>
           ELSE
              /\ scenes' = process_script(reply.data)
              /\ script_json' = <<save_scenes(scenes')>>
              /\ Goto("generate_visuals")
    /\ UNCHANGED <<env_vars, prev, resources, loaded_scenes, images, audio_file, timing_json, final_video,
                   visuals_locals, visuals_ret, voiceover_ret, assemble_ret,
                   tts_runs, tts_status, assemble_locals>>

\* save_scenes called on a scene list
save_scenes_call ==
    /\ pc = "save_scenes"
    /\ started' = Append(started, "save_scenes")
    /\ script_json' = <<save_scenes(scenes)>>
    /\ Goto("load_scenes")
    /\ UNCHANGED <<env_vars, prev, resources, loaded_scenes, scenes, images,
                   audio_file, timing_json, final_video, visuals_locals,
                   visuals_ret, voiceover_ret, assemble_ret, tts_runs, tts_status,
                   assemble_locals, failures>>

\* load_scenes called on the file save_scenes wrote
load_scenes_call ==
    /\ pc = "load_scenes"
    /\ started' = Append(started, "load_scenes")
    /\ IF script_json = <<>> THEN
          /\ Raise("FileNotFoundError")
          /\ UNCHANGED loaded_scenes
       ELSE LET r == load_scenes(script_json[1]) IN
          IF r.ok THEN
             /\ loaded_scenes' = <<r.val>>
             /\ Goto("done")
          ELSE
             /\ Raise(r.error)
             /\ UNCHANGED loaded_scenes
    /\ UNCHANGED <<env_vars, prev, resources, scenes, images, files_but_images,
                   visuals_locals, visuals_ret, voiceover_ret, assemble_ret,
                   tts_runs, tts_status, assemble_locals, failures>>

\* ------------------------------------------------------ generate_visuals.py
Event(ev, id) == [ev |-> ev, id |-> id]

\* outcomes of one generate_image call: an image is returned and saved; the
\* response holds no image; the try block raises and the placeholder is
\* written; the try block raises and create_placeholder raises as well
GenOutcomes == {"image", "empty", "placeholder", "raise"}

\* generate_image: what the call leaves behind for each outcome
generate_image(out) ==
    [written |-> out \in {"image", "placeholder"},
     ret |-> (out = "image"),
     raises |-> (out = "raise")]

\* mutant: the existence test is dropped, every scene is generated
image_exists_bug(id) == FALSE

\* generate_visuals: the test that skips a scene
image_exists(id) == id \in images

\* mutant: a skipped scene is not counted as a success
after_skip_bug(count) == count

\* generate_visuals: success_count += 1 for a scene whose image exists
after_skip(count) == count + 1

\* generate_visuals: the rate-limit test after a generation
delay_due(n) == n < Len(scenes)

\* generate_visuals up to the loop: mkdir and setup_gemini
generate_visuals_start ==
    /\ pc = "generate_visuals"
    /\ started' = Append(started, "generate_visuals")
    /\ calls' = calls + 1
    /\ log' = <<>>
    /\ i' = 1
    /\ success_count' = 0
    /\ failures' = IF api_key THEN failures ELSE failures \cup {"setup_gemini"}
    /\ IF ~api_key THEN Raise("ValueError") ELSE Goto("visuals_loop")
    /\ UNCHANGED <<env_vars, prev, resources, loaded_scenes, scenes, images, files_but_images, visuals_ret,
                   voiceover_ret, assemble_ret, tts_runs, tts_status,
                   assemble_locals>>

\* generate_visuals: one iteration of the loop over the scenes
generate_visuals_scene ==
    /\ pc = "visuals_loop"
    /\ i <= Len(scenes)
    /\ LET id == scenes[i].id
           \* what the directory held when the loop reached the scene
           reached == Append(log, Event(IF id \in images THEN "present" ELSE "absent", id))
       IN
       IF image_exists(id) THEN
          /\ log' = Append(reached, Event("skip", id))
          /\ success_count' = after_skip(success_count)
          /\ i' = i + 1
          /\ Goto("visuals_loop")
          /\ UNCHANGED <<images, failures>>
       ELSE
          \E out \in GenOutcomes :
             LET r == generate_image(out)
                 l1 == Append(reached, Event("request", id))
                 l2 == IF r.written THEN Append(l1, Event("write", id)) ELSE l1
             IN
             /\ images' = IF r.written THEN images \cup {id} ELSE images
             /\ failures' = IF out = "image" THEN failures
                            ELSE failures \cup {"generate_image"}
             /\ IF r.raises THEN
                   /\ log' = l2
                   /\ Raise("OSError")
                   /\ UNCHANGED <<i, success_count>>
                ELSE
                   /\ success_count' = IF r.ret THEN success_count + 1 ELSE success_count
                   /\ log' = IF delay_due(i) THEN Append(l2, Event("sleep", id)) ELSE l2
                   /\ i' = i + 1
                   /\ Goto("visuals_loop")
    /\ UNCHANGED <<env_vars, prev, resources, loaded_scenes, scenes, files_but_images, calls, started, visuals_ret,
                   voiceover_ret, assemble_ret, tts_runs, tts_status,
                   assemble_locals>>

\* generate_visuals: the return after the loop; main() goes on to step 3
generate_visuals_return ==
    /\ pc = "visuals_loop"
    /\ i > Len(scenes)
    /\ visuals_ret' = IF success_count = Len(scenes) THEN "True" ELSE "False"
    /\ Goto(IF entry = "main" THEN "main_voiceover" ELSE "done")
    /\ UNCHANGED <<env_vars, prev, resources, loaded_scenes, scenes, images, files_but_images, visuals_locals,
                   started, voiceover_ret, assemble_ret, tts_runs, tts_status,
                   assemble_locals, failures>>

\* generate_visuals called again with the same scenes and output directory
generate_visuals_again ==
    /\ entry = "visuals"
    /\ pc = "done"
    /\ calls < MaxCalls
    /\ pc' = "generate_visuals"
    /\ exc' = "none"
    /\ visuals_ret' = "none"
    /\ prev' = [ret |-> visuals_ret,
                complete |-> \A n \in 1..Len(scenes) : scenes[n].id \in images]
    /\ UNCHANGED <<env_vars, resources, loaded_scenes, scenes, images, files_but_images, visuals_locals,
                   started, voiceover_ret, assemble_ret, main_ret, tts_runs,
                   assemble_locals, tts_status, failures>>

\* ---------------------------------------------------- generate_voiceover.py
\* mutant: the end of a marker forgets the running sum
timing_marker_bug(scene, current_time) ==
    [start |-> current_time, end |-> scene.duration, text |-> scene.text]

\* generate_timing_markers: the marker appended for one scene
timing_marker(scene, current_time) ==
    [start |-> current_time,
     end |-> current_time + scene.duration,
     text |-> scene.text]

RECURSIVE timing_loop(_, _, _, _)
\* generate_timing_markers: the loop, from scene number n on
timing_loop(s, n, current_time, markers) ==
    IF n > Len(s) THEN markers
    ELSE timing_loop(s, n + 1, current_time + s[n].duration,
                     Append(markers, timing_marker(s[n], current_time)))

\* generate_timing_markers: markers = [], current_time = 0.0, then the loop
generate_timing_markers(s) == timing_loop(s, 1, 0, <<>>)

\* def generate_voiceover(scenes, output_path, voice, lang): its parameters
\* and the ones without a default
voiceover_params == {"scenes", "output_path", "voice", "lang"}
voiceover_required == {"scenes", "output_path"}

\* the keyword arguments main() passes to generate_voiceover
main_voiceover_keywords == {"scenes", "output_dir", "voice", "lang", "combine"}

\* Python's binding of keyword arguments to a signature
Binds(keywords, params, required) ==
    /\ keywords \subseteq params
    /\ required \subseteq keywords

\* generate_voiceover: the dict it returns
voiceover_result(s) ==
    [audio_path |-> "voiceover.wav",
     timing_data |-> generate_timing_markers(s),
     duration |-> SumDurations(s)]

\* the key main() reads from the result for its progress lines
main_duration_key == "total_duration"

\* main(), step 3: the call of generate_voiceover
main_voiceover ==
    /\ pc = "main_voiceover"
    /\ IF Binds(main_voiceover_keywords, voiceover_params, voiceover_required)
       THEN Goto("generate_voiceover")
       ELSE Raise("TypeError")
    /\ UNCHANGED <<env_vars, prev, resources, loaded_scenes, scenes, images, files_but_images, visuals_locals,
                   started, visuals_ret, voiceover_ret, assemble_ret, tts_runs,
                   assemble_locals, tts_status, failures>>

\* the TTS subprocess exits with a status and may or may not write the file
TtsExits == {0, 1}

\* mutant: the exit status is not checked
tts_failed_bug(status) == FALSE

\* generate_voiceover: an exception of subprocess.run(check=True) is re-raised
tts_failed(status) == status # 0

\* generate_voiceover, the whole function; in main() the lines up to the call
\* of assemble_video follow its return
generate_voiceover ==
    /\ pc = "generate_voiceover"
    /\ started' = Append(started, "generate_voiceover")
    /\ IF ~tts_script THEN
          /\ Raise("FileNotFoundError")
          /\ failures' = failures \cup {"tts_script"}
          /\ UNCHANGED <<tts_runs, tts_status, audio_file, voiceover_ret>>
       ELSE
          \E status \in TtsExits, wrote \in BOOLEAN :
             /\ tts_runs' = tts_runs + 1
             /\ audio_file' = (audio_file \/ wrote)
             /\ tts_status' = status
             /\ failures' = IF status = 0 /\ wrote THEN failures
                            ELSE failures \cup {"tts"}
             /\ IF tts_failed(status) THEN
                   /\ Raise("CalledProcessError")
                   /\ UNCHANGED voiceover_ret
                ELSE IF ~audio_file' THEN
                   /\ Raise("FileNotFoundError")
                   /\ UNCHANGED voiceover_ret
                ELSE
                   /\ voiceover_ret' = <<voiceover_result(scenes)>>
                   /\ IF entry # "main" THEN Goto("done")
                      ELSE IF main_duration_key \notin DOMAIN voiceover_ret'[1]
                      THEN Raise("KeyError")
                      ELSE Goto("assemble_video")
    /\ UNCHANGED <<env_vars, prev, resources, loaded_scenes, scenes, images, script_json, timing_json, final_video,
                   visuals_locals, visuals_ret, assemble_ret, assemble_locals>>

\* ------------------------------------------------------- assemble_video.py
\* assemble_video returns val; main() turns it into its exit status
assemble_return(val) ==
    /\ assemble_ret' = val
    /\ pc' = "done"
    /\ exc' = exc
    /\ main_ret' = IF entry # "main" THEN main_ret
                   ELSE IF val = "True" THEN 0 ELSE 1

\* assemble_video: open() and json.load() of the timing file
assemble_video_load ==
    /\ pc = "assemble_video"
    /\ started' = Append(started, "assemble_video")
    /\ k' = 1
    /\ clips' = <<>>
    /\ video' = <<>>
    /\ failures' = IF timing_json.state = "ok" THEN failures
                   ELSE failures \cup {"timing_file"}
    /\ IF timing_json.state = "missing" THEN Raise("FileNotFoundError")
       ELSE IF timing_json.state = "malformed" THEN Raise("JSONDecodeError")
       ELSE Goto("create_video")
    /\ UNCHANGED <<env_vars, prev, resources, loaded_scenes, scenes, images, files_but_images, visuals_locals,
                   visuals_ret, voiceover_ret, assemble_ret, tts_runs, tts_status>>

\* create_video_from_scenes: the key under which a timing record names its scene
scene_key == "scene_id"

\* create_video_from_scenes: the two lookups at the top of the loop body
record_readable(timing) ==
    /\ scene_key \in DOMAIN timing
    /\ "duration" \in DOMAIN timing

\* mutant: the existence test is dropped, every entry is loaded
clip_image_exists_bug(scene_id) == TRUE

\* create_video_from_scenes: the test that skips a timing entry
clip_image_exists(scene_id) == scene_id \in images

\* mutant: a missing video is reported as success
no_video_result_bug == "True"

\* assemble_video: what it returns when create_video_from_scenes gave no video
no_video_result == "False"

\* create_video_from_scenes returned v; assemble_video: if not video: return False
create_video_return(v) ==
    /\ video' = v
    /\ IF v = <<>> THEN assemble_return(no_video_result)
       ELSE /\ Goto("add_audio")
            /\ UNCHANGED assemble_ret

\* create_video_from_scenes: one iteration of the loop over timing_data
create_video_scene ==
    /\ pc = "create_video"
    /\ k <= Len(timing_json.data)
    /\ LET timing == timing_json.data[k] IN
       IF ~record_readable(timing) THEN
          \* KeyError, caught by the function's except clause: return None
          /\ create_video_return(<<>>)
          /\ failures' = failures \cup {"timing_record"}
          /\ UNCHANGED <<k, clips, opened>>
       ELSE IF ~clip_image_exists(timing[scene_key]) THEN
          /\ k' = k + 1
          /\ Goto("create_video")
          /\ UNCHANGED <<clips, video, assemble_ret, failures, opened>>
       ELSE
          \E loaded \in BOOLEAN :
             /\ failures' = IF loaded THEN failures ELSE failures \cup {"image_clip"}
             /\ IF loaded THEN
                   /\ clips' = Append(clips, [scene_id |-> timing[scene_key],
                                              duration |-> timing.duration])
                   /\ opened' = opened \cup {<<"clip", k>>}
                   /\ k' = k + 1
                   /\ Goto("create_video")
                   /\ UNCHANGED <<video, assemble_ret>>
                ELSE
                   /\ create_video_return(<<>>)
                   /\ UNCHANGED <<k, clips, opened>>
    /\ UNCHANGED <<env_vars, prev, closed, loaded_scenes, scenes, images, files_but_images, visuals_locals,
                   started, visuals_ret, voiceover_ret, tts_runs, tts_status>>

\* create_video_from_scenes after the loop: no clips, or concatenate and set fps
create_video_concat ==
    /\ pc = "create_video"
    /\ k > Len(timing_json.data)
    /\ IF clips = <<>> THEN
          /\ create_video_return(<<>>)
          /\ UNCHANGED <<failures, opened>>
       ELSE
          \E concatenated \in BOOLEAN :
             /\ failures' = IF concatenated THEN failures
                            ELSE failures \cup {"concatenate"}
             /\ opened' = IF concatenated THEN opened \cup {<<"video", 0>>} ELSE opened
             /\ create_video_return(
                   IF concatenated
                   THEN <<[clips |-> clips, audio |-> FALSE, fps |-> 30]>>
                   ELSE <<>>)
    /\ UNCHANGED <<env_vars, prev, closed, loaded_scenes, scenes, images, files_but_images, visuals_locals,
                   started, visuals_ret, voiceover_ret, tts_runs, tts_status,
                   k, clips>>

\* add_audio_to_video: on any error the video is returned as it came
add_audio_to_video ==
    /\ pc = "add_audio"
    /\ \E attached \in BOOLEAN :
          /\ attached => audio_file
          /\ failures' = IF attached THEN failures ELSE failures \cup {"audio"}
          /\ opened' = IF attached THEN opened \cup {<<"audio", 0>>} ELSE opened
          /\ video' = IF attached THEN <<[video[1] EXCEPT !.audio = TRUE]>> ELSE video
    /\ Goto("export_video")
    /\ UNCHANGED <<env_vars, prev, closed, loaded_scenes, scenes, images, files_but_images, visuals_locals,
                   started, visuals_ret, voiceover_ret, assemble_ret, tts_runs,
                   tts_status, k, clips>>

\* export_video: True when write_videofile went through, False on any error
export_video_result(written) == IF written THEN "True" ELSE "False"

\* assemble_video: video.close(), taken at its most generous: it releases the
\* video and everything the video was built from (its clips, its audio)
video_close(open) == open

\* export_video, then assemble_video's video.close() and return success
export_video ==
    /\ pc = "export_video"
    /\ \E written \in BOOLEAN :
          /\ final_video' = (final_video \/ written)
          /\ failures' = IF written THEN failures ELSE failures \cup {"export"}
          /\ assemble_return(export_video_result(written))
    /\ closed' = closed \cup video_close(opened)
    /\ UNCHANGED <<env_vars, prev, opened, loaded_scenes, scenes, images, script_json, audio_file, timing_json,
                   visuals_locals, started, visuals_ret, voiceover_ret, tts_runs,
                   tts_status, assemble_locals>>

\* ------------------------------------------------------------ main(), rest
\* the user interrupts main() inside its try block: except KeyboardInterrupt
main_interrupt ==
    /\ entry = "main"
    /\ pc # "done"
    /\ Raise("KeyboardInterrupt")
    /\ UNCHANGED <<env_vars, prev, resources, loaded_scenes, scenes, images, files_but_images, visuals_locals,
                   started, visuals_ret, voiceover_ret, assemble_ret, tts_runs,
                   assemble_locals, tts_status, failures>>

\* ------------------------------------------------------------ the inputs
\* the records a timing file can hold: the shape create_video_from_scenes
\* reads, the same with the scene under "id" (its duration is never read: the
\* lookup of scene_id comes first), and one without a duration
TimingRecords ==
    [scene_id : Ids, duration : Durations]
    \cup [id : Ids, duration : {1}]
    \cup [scene_id : Ids]

\* timing tables: sequences of such records, and the tables generate_voiceover makes
TimingTables ==
    SeqsUpTo(TimingRecords, MaxScenes)
    \cup {generate_timing_markers(s) : s \in VoiceScenes}

TimingFiles ==
    [state : {"missing", "malformed"}, data : {<<>>}]
    \cup [state : {"ok"}, data : TimingTables]

NoTiming == [state |-> "missing", data |-> <<>>]

Common ==
    /\ i = 1 /\ success_count = 0 /\ log = <<>> /\ calls = 0
    /\ started = <<>>
    /\ visuals_ret = "none" /\ voiceover_ret = <<>> /\ assemble_ret = "none"
    /\ exc = "none" /\ main_ret = -1 /\ tts_runs = 0
    /\ k = 1 /\ clips = <<>> /\ video = <<>>
    /\ tts_status = -1
    /\ failures = {}
    /\ prev = [ret |-> "none", complete |-> FALSE]
    /\ opened = {} /\ closed = {}
    /\ loaded_scenes = <<>>
    /\ script_json = <<>> /\ final_video = FALSE

\* generate_video.py run in a fresh, timestamped output directory
InitMain ==
    /\ entry = "main" /\ pc = "process_script"
    /\ scenes = <<>>
    /\ api_key \in BOOLEAN /\ tts_script \in BOOLEAN
    /\ images = {} /\ audio_file = FALSE /\ timing_json = NoTiming

\* generate_visuals.py's function called on a scene list and a directory
InitVisuals ==
    /\ entry = "visuals" /\ pc = "generate_visuals"
    /\ scenes \in VisualScenes
    /\ api_key \in BOOLEAN /\ tts_script = TRUE
    /\ images \in SUBSET Ids /\ audio_file = FALSE /\ timing_json = NoTiming

\* generate_voiceover.py's function called with its own parameter names
InitVoiceover ==
    /\ entry = "voiceover" /\ pc = "generate_voiceover"
    /\ scenes \in VoiceScenes
    /\ api_key = TRUE /\ tts_script \in BOOLEAN
    /\ images = {} /\ audio_file \in BOOLEAN /\ timing_json = NoTiming

\* assemble_video.py run on a scenes directory, an audio file and a timing file
InitAssemble ==
    /\ entry = "assemble" /\ pc = "assemble_video"
    /\ scenes = <<>>
    /\ api_key = TRUE /\ tts_script = TRUE
    /\ images \in SUBSET Ids /\ audio_file \in BOOLEAN /\ timing_json \in TimingFiles

\* narration texts with the characters JSON has to escape, and a two-digit
\* duration
RoundTripSamples ==
    {<<"", 1>>, <<"hi", 10 + MaxDuration>>, <<"q\"r", 1>>, <<"b\\", MaxDuration>>,
     <<"c\\n", 1>>, <<"l\nm", 1>>}

RoundTripScenes ==
    SeqsUpTo({[id |-> "scene-001", text |-> x[1], visual_prompt |-> x[1],
               duration |-> x[2]] : x \in RoundTripSamples}, MaxScenes)

\* save_scenes followed by load_scenes on the same path
InitRoundTrip ==
    /\ entry = "roundtrip" /\ pc = "save_scenes"
    /\ scenes \in RoundTripScenes
    /\ api_key = TRUE /\ tts_script = TRUE
    /\ images = {} /\ audio_file = FALSE /\ timing_json = NoTiming

Init ==
    Common /\ (InitMain \/ InitVisuals \/ InitVoiceover \/ InitAssemble \/ InitRoundTrip)

Next ==
    \/ main_process_script
    \/ generate_visuals_start
    \/ generate_visuals_scene
    \/ generate_visuals_return
    \/ generate_visuals_again
    \/ main_voiceover
    \/ generate_voiceover
    \/ assemble_video_load
    \/ create_video_scene
    \/ create_video_concat
    \/ add_audio_to_video
    \/ export_video
    \/ main_interrupt
    \/ save_scenes_call
    \/ load_scenes_call

Spec == Init /\ [][Next]_vars

\* ================================================================= claims
FourStages == <<"process_script", "generate_visuals", "generate_voiceover",
                "assemble_video">>

IsPrefix(s, t) == Len(s) <= Len(t) /\ s = SubSeq(t, 1, Len(s))

TimingOk == timing_json.state = "ok"

\* a record that carries duration and names its scene under scene_id or id
AcceptedShape(rec) ==
    /\ "duration" \in DOMAIN rec
    /\ ("scene_id" \in DOMAIN rec \/ "id" \in DOMAIN rec)

NamesScene(rec) == "scene_id" \in DOMAIN rec \/ "id" \in DOMAIN rec

NamedScene(rec) == IF "scene_id" \in DOMAIN rec THEN rec.scene_id ELSE rec.id

RECURSIVE ExpectedClips(_)
\* one clip per record whose image exists, in table order, with its own duration
ExpectedClips(data) ==
    IF data = <<>> THEN <<>>
    ELSE LET rest == ExpectedClips(SubSeq(data, 1, Len(data) - 1))
             rec == data[Len(data)]
         IN IF NamedScene(rec) \in images
            THEN Append(rest, [scene_id |-> NamedScene(rec), duration |-> rec.duration])
            ELSE rest

\* C1: when every external call succeeds, a run of main() passes through all
\* four stages and ends with script.json of N entries, N scene images, the
\* audio file, a timing file whose last end is the sum of the durations and a
\* final video, and main() returns 0.
C1_EndToEnd ==
    (entry = "main" /\ pc = "done" /\ failures = {} /\ exc # "KeyboardInterrupt") =>
        /\ main_ret = 0
        /\ started = FourStages
        /\ Len(scenes) >= 1
        /\ script_json # <<>> /\ Len(script_json[1]) = Len(scenes)
        /\ \A n \in 1..Len(scenes) : scenes[n].id \in images
        /\ audio_file
        /\ TimingOk /\ Len(timing_json.data) = Len(scenes)
        /\ timing_json.data[Len(scenes)].end = SumDurations(scenes)
        /\ final_video

\* C2: main() returns 0 only after the four stages ran in order and assembly
\* returned True; every other finished run returns 1 (a stage raised, assembly
\* returned False, the user interrupted), and once an exception has left a
\* stage the run is over: no later stage is started.
C2_MainExit ==
    entry = "main" =>
        /\ IsPrefix(started, FourStages)
        /\ (main_ret = 0 => started = FourStages /\ assemble_ret = "True")
        /\ (pc = "done" =>
              main_ret = IF started = FourStages /\ assemble_ret = "True" /\ exc = "none"
                         THEN 0 ELSE 1)
        /\ (exc # "none" => pc = "done" /\ main_ret = 1)
        /\ (pc # "done" => main_ret = -1)

C2_Witness ==
    /\ entry = "main" /\ pc = "done"
    /\ exc = "TypeError" /\ main_ret = 1
    /\ started = <<"process_script", "generate_visuals">>
    /\ Len(scenes) >= 2

C4_EitherKeyAccepted ==
    ( /\ entry = "assemble" /\ pc = "done" /\ TimingOk
      /\ \A n \in 1..Len(timing_json.data) : AcceptedShape(timing_json.data[n])
      /\ failures \subseteq {"timing_record"} )
    => /\ clips = ExpectedClips(timing_json.data)
       /\ (ExpectedClips(timing_json.data) # <<>> => assemble_ret = "True")

\* C5: within one generate_visuals call, a scene whose image file was there
\* when the loop reached it is not requested from the image service and its
\* file is not written, for every call of a sequence over one directory.
C5_ExistingNeverRegenerated ==
    \A a \in DOMAIN log, b \in DOMAIN log :
        (a < b /\ log[a].ev = "present" /\ log[b].id = log[a].id)
            => log[b].ev \notin {"request", "write"}

C5_Witness ==
    /\ entry = "visuals" /\ calls = 2 /\ pc = "done"
    /\ Len(scenes) >= 2
    /\ \E a \in DOMAIN log, b \in DOMAIN log :
          a < b /\ log[a].ev = "present" /\ log[b].ev = "write"

\* C6: a failed image generation never raises out of generate_visuals: an
\* exception reaches the caller only when the call has produced no image.
C6_FailureNeverRaises ==
    (entry = "visuals" /\ exc # "none") =>
        ~ \E a \in DOMAIN log : log[a].ev = "write"

\* C7: for a timing table whose records are keyed as create_video_from_scenes
\* reads them, the clip list is made of exactly the entries whose image
\* exists, in table order, each with its own duration; entries without image
\* are skipped and, when nothing else fails and one image exists, the assembly
\* succeeds.
C7_MissingImagesSkipped ==
    ( /\ entry = "assemble" /\ TimingOk
      /\ \A n \in 1..Len(timing_json.data) :
            {"scene_id", "duration"} \subseteq DOMAIN timing_json.data[n] )
    => /\ (pc = "create_video" =>
             clips = ExpectedClips(SubSeq(timing_json.data, 1, k - 1)))
       /\ (video # <<>> => video[1].clips = ExpectedClips(timing_json.data))
       /\ (pc = "done" /\ failures = {} /\ ExpectedClips(timing_json.data) # <<>>
             => /\ assemble_ret = "True"
                /\ final_video
                /\ video # <<>>)

C7_Witness ==
    /\ entry = "assemble" /\ pc = "done" /\ assemble_ret = "True"
    /\ Len(timing_json.data) = 3
    /\ \A n \in 1..3 : {"scene_id", "duration"} \subseteq DOMAIN timing_json.data[n]
    /\ timing_json.data[2].scene_id \notin images
    /\ Len(video[1].clips) = 2
    /\ timing_json.data[1].duration # timing_json.data[3].duration

\* no record of the table names a scene whose image file exists
NoUsableImage ==
    \A n \in 1..Len(timing_json.data) :
        NamesScene(timing_json.data[n]) => NamedScene(timing_json.data[n]) \notin images

C9_ErrorsReturnFalse ==
    (entry = "assemble" /\ pc = "done" /\ failures # {}) =>
        /\ exc = "none"
        /\ assemble_ret = "False"

\* C10: generate_voiceover returns its result only after a TTS run that exited
\* 0 and with the audio file in place; a non-zero exit and a missing file each
\* raise to the caller, the subprocess is run at most once, nothing is returned.
C10_VoiceoverResult ==
    /\ tts_runs <= 1
    /\ (voiceover_ret # <<>> =>
          /\ tts_runs = 1 /\ tts_status = 0 /\ audio_file
          /\ DOMAIN voiceover_ret[1] = {"audio_path", "timing_data", "duration"}
          /\ voiceover_ret[1].duration = SumDurations(scenes))
    /\ (entry = "voiceover" /\ voiceover_ret # <<>> => exc = "none")
    /\ (entry = "voiceover" /\ pc = "done" /\ tts_runs = 1 /\ tts_status # 0 =>
          exc = "CalledProcessError" /\ voiceover_ret = <<>>)
    /\ (entry = "voiceover" /\ pc = "done" /\ tts_runs = 1 /\ tts_status = 0
          /\ ~audio_file =>
          exc = "FileNotFoundError" /\ voiceover_ret = <<>>)

C10_Witness ==
    /\ entry = "voiceover" /\ pc = "done"
    /\ voiceover_ret # <<>>
    /\ Len(scenes) >= 1
    /\ tts_status = 0 /\ tts_runs = 1

\* C12: process_script never hands an empty scene list on: a reply that
\* parses to zero scenes fails the stage and aborts the run, so no later stage
\* is started with zero scenes.
C12_NeverEmptyScenes ==
    (entry = "main" /\ Len(started) >= 2) => Len(scenes) >= 1

\* C13: the scenes process_script returns have pairwise distinct ids, also
\* when model-provided and synthesized ids are mixed, so no two scenes of a
\* run map to the same image file.
C13_DistinctIds ==
    (entry = "main" /\ script_json # <<>>) =>
        \A m \in 1..Len(scenes), n \in 1..Len(scenes) :
            m # n => scenes[m].id # scenes[n].id

\* C14: in a generate_visuals call over scenes of distinct ids that ran to its
\* return, every delay is
\* followed by a further request of the same call and lies right after a
\* request, two consecutive requests are separated by exactly one delay, and no
\* delay follows the processing of the final scene.
C14_DelaysBetweenRequests ==
    ( /\ pc \in {"done", "main_voiceover"} /\ visuals_ret # "none"
      /\ \A m \in 1..Len(scenes), n \in 1..Len(scenes) :
            m # n => scenes[m].id # scenes[n].id ) =>
        LET Requests == {a \in DOMAIN log : log[a].ev = "request"}
            Sleeps == {a \in DOMAIN log : log[a].ev = "sleep"}
        IN /\ \A d \in Sleeps :
                 /\ \E a \in Requests : a < d
                 /\ \E b \in Requests : b > d
           /\ \A a \in Requests, b \in Requests :
                 (a < b /\ ~ \E c \in Requests : a < c /\ c < b)
                    => Cardinality({d \in Sleeps : a < d /\ d < b}) = 1
           /\ (log # <<>> => log[Len(log)].ev # "sleep")

\* C15: on every path through assemble_video, every media resource it opened
\* (image clips, concatenated video, audio clip) is closed by the time the
\* function has returned or raised.
C15_ResourcesReleased ==
    (entry = "assemble" /\ pc = "done") => opened \subseteq closed

\* C16: when a generate_visuals call has returned and left a file for every
\* scene, the next call over the same scenes and directory makes no request,
\* takes no delay, writes no file and returns True, whatever the first returned.
\* (At pc = "generate_visuals" the next call has not begun and log is still the
\* earlier call's.)
C16_SecondCallIdle ==
    ( /\ entry = "visuals" /\ calls >= 2 /\ prev.ret # "none" /\ prev.complete
      /\ pc # "generate_visuals" ) =>
        /\ \A a \in DOMAIN log : log[a].ev \notin {"request", "write", "sleep"}
        /\ \A n \in 1..Len(scenes) : scenes[n].id \in images
        /\ (pc = "done" => visuals_ret = "True" /\ exc = "none")
        /\ (pc = "visuals_loop" => success_count = i - 1)

C16_Witness ==
    /\ entry = "visuals" /\ calls = 2 /\ pc = "done"
    /\ prev.ret = "False" /\ prev.complete
    /\ visuals_ret = "True"
    /\ Len(scenes) >= 2
    /\ Len(log) = 2 * Len(scenes)

\* C11: load_scenes applied to the file save_scenes wrote returns a list of
\* the same length and order whose records equal the originals field for
\* field, for every valid scene list, the empty one and empty narration
\* included.
C11_RoundTrip ==
    /\ (loaded_scenes # <<>> =>
          /\ Len(loaded_scenes[1]) = Len(scenes)
          /\ \A n \in 1..Len(scenes) :
                \A f \in 1..Len(SceneFields) :
                   loaded_scenes[1][n][SceneFields[f]] = scenes[n][SceneFields[f]])
    /\ (entry = "roundtrip" /\ pc = "done" => exc = "none" /\ loaded_scenes # <<>>)

C11_Witness ==
    /\ entry = "roundtrip" /\ pc = "done" /\ loaded_scenes # <<>>
    /\ Len(scenes) = 3
    /\ scenes[1].text = "c\\n"
    /\ scenes[2].text = ""
    /\ scenes[3].text = "q\"r"

C11_WitnessEmpty ==
    entry = "roundtrip" /\ pc = "done" /\ loaded_scenes = <<<<>>>> /\ scenes = <<>>

====
